---- MODULE Spec2Model ----
(***************************************************************************)
(* Model of drakcore/ipt_disasm.py: resolution of page faults against      *)
(* dumped frames (match_frames), construction of the decoder command line  *)
(* (get_ptxed_cmdline), normalisation of the decoder output                *)
(* (generate_ipt_blocks, generate_ptxed) and the generator that drives the *)
(* external filter and decoder (get_executed_blocks).                      *)
(***************************************************************************)
EXTENDS Integers, Sequences, FiniteSets, TLC

VARIABLES
    cr3_value,          \* parameter: CR3 of the process of interest
    use_blocks,         \* parameter: drak-ipt-blocks instead of ptxed
    codemon,            \* content of <analysis_dir>/codemon.log
    dumps,              \* <analysis_dir>/ipt/dumps: file name -> size, or Missing
    decoder_out,        \* the lines the decoder writes to its stdout
    decoder_rc,         \* the exit status of the decoder
    entry,              \* "direct": get_ptxed_cmdline called; "generator": get_executed_blocks
    pc,                 \* position in the code
    loaded,             \* load_drakvuf_output has been called
    page_faults,        \* faults_in_process, sorted
    frames,             \* frames_in_process
    foreign_frames,     \* frames_out_process
    frame_map,          \* match_frames: defaultdict(list) of own frames
    foreign_frame_map,  \* match_frames: defaultdict(list) of foreign frames
    fi,                 \* match_frames: number of faults handled by the loop
    unresolved,         \* match_frames: counter
    foreign_resolved,   \* match_frames: counter
    results,            \* match_frames: result list
    ptxed_cmdline,      \* value returned by get_ptxed_cmdline
    gen,                \* state of the get_executed_blocks generator
    filtered_stream,    \* the NamedTemporaryFile of get_executed_blocks
    filter_runs,        \* number of drak-ipt-filter runs
    proc,               \* the decoder process
    rd,                 \* number of lines of process.stdout consumed
    prev_block,         \* generate_ptxed: flag
    yielded             \* values yielded so far

vars == <<cr3_value, use_blocks, codemon, dumps, decoder_out, decoder_rc, entry,
          pc, loaded, page_faults, frames, foreign_frames, frame_map,
          foreign_frame_map, fi, unresolved, foreign_resolved, results,
          ptxed_cmdline, gen, filtered_stream, filter_runs, proc, rd,
          prev_block, yielded>>

inputVars == <<cr3_value, use_blocks, codemon, dumps, decoder_out, decoder_rc, entry>>

matchVars == <<loaded, page_faults, frames, foreign_frames, frame_map,
               foreign_frame_map, fi, unresolved, foreign_resolved, results>>

genVars == <<gen, filtered_stream, filter_runs, proc, rd, prev_block, yielded>>

----------------------------------------------------------------------------
(* Bounds of the model *)

MaxFaults == 2
MaxFrames == 2
MaxLines == 3

(* Program constants *)

PageSize == 4096
HexWidth == 16

----------------------------------------------------------------------------
(* drakcore.ipt_utils helpers *)

page_align(addr) == addr - (addr % PageSize)

is_page_aligned(addr) == addr % PageSize = 0

get_fault_va(fault) == fault.VA

get_fault_pa(fault) == fault.PA

get_frame_va(frame) == frame.PageVA

get_trap_pa(frame) == frame.TrapPA

\* the predicate on CR3 is given as the function pred from CR3 values to BOOLEAN
select_cr3(pred, entries) ==
    LET Keep(e) == pred[e.CR3] IN SelectSeq(entries, Keep)

load_drakvuf_output(log) == log

----------------------------------------------------------------------------
(* Event records of codemon.log *)

TargetCR3 == 5 * PageSize
OtherCR3 == 6 * PageSize

Fault(cr3, va, pa) ==
    [EventType |-> "pagefault", CR3 |-> cr3, VA |-> va, PA |-> pa,
     PageVA |-> 0, TrapPA |-> 0, DumpFile |-> <<>>]

Frame(cr3, va, pa, dump) ==
    [EventType |-> "execframe", CR3 |-> cr3, VA |-> 0, PA |-> 0,
     PageVA |-> va, TrapPA |-> pa, DumpFile |-> dump]

OtherEvent ==
    [EventType |-> "codemon", CR3 |-> TargetCR3, VA |-> 0, PA |-> 0,
     PageVA |-> 0, TrapPA |-> 0, DumpFile |-> <<>>]

\* 0x8000/0x9010, 0x7010/0x9000, and a fault of another process
FaultEvents ==
    { Fault(TargetCR3, 32768, 36880),
      Fault(TargetCR3, 28688, 36864),
      Fault(OtherCR3, 28672, 36864) }

\* dump files are paths; only their last component is looked up
FrameEvents ==
    { Frame(TargetCR3, 28672, 36868, <<"dumps", "f1">>),
      Frame(TargetCR3, 28672, 36864, <<"f2">>),
      Frame(TargetCR3, 28672, 40960, <<"(null)">>),
      Frame(OtherCR3, 28672, 36864, <<"f2">>),
      Frame(OtherCR3, 32768, 36864, <<"tmp", "f1">>) }

SeqsUpTo(S, n) == UNION { [1..k -> S] : k \in 0..n }

\* a log: a record of another type, then frames and faults
Logs ==
    { <<OtherEvent>> \o fr \o fa :
        fr \in SeqsUpTo(FrameEvents, MaxFrames), fa \in SeqsUpTo(FaultEvents, MaxFaults) }

\* what Path.exists() and Path.stat().st_size report for a name
File(size) == [exists |-> TRUE, st_size |-> size]
Missing == [exists |-> FALSE, st_size |-> 0]
DumpNames == {"f1", "f2", "(null)"}
FileStates == {Missing, File(PageSize), File(PageSize - 1)}
DumpDirs ==
    { d \in [DumpNames -> FileStates] : d["(null)"] # File(PageSize - 1) }

----------------------------------------------------------------------------
(* build_frame_va_map, select_frame *)

None == [EventType |-> "None", CR3 |-> 0, VA |-> 0, PA |-> 0,
         PageVA |-> 0, TrapPA |-> 0, DumpFile |-> <<>>]

\* frame_map[addr].insert(0, frame) in place of append
MapPrepend(m, addr, frame) ==
    IF addr \in DOMAIN m
        THEN [m EXCEPT ![addr] = <<frame>> \o @]
        ELSE m @@ (addr :> <<frame>>)

\* frame_map[addr].append(frame) on a defaultdict(list)
MapAppend(m, addr, frame) ==
    IF addr \in DOMAIN m
        THEN [m EXCEPT ![addr] = Append(@, frame)]
        ELSE m @@ (addr :> <<frame>>)

RECURSIVE BuildFrom(_, _, _)
BuildFrom(m, fs, k) ==
    IF k > Len(fs) THEN m
    ELSE BuildFrom(MapAppend(m, page_align(get_frame_va(fs[k])), fs[k]), fs, k + 1)

build_frame_va_map(fs) == BuildFrom(<<>>, fs, 1)

RECURSIVE SelectFrom(_, _, _)
SelectFrom(fs, phys_addr, k) ==
    IF k > Len(fs) THEN None
    ELSE IF phys_addr = page_align(get_trap_pa(fs[k])) THEN fs[k]
    ELSE SelectFrom(fs, phys_addr, k + 1)

\* select_frame without the comparison of physical pages
select_frame_any(fs, phys_addr) == IF fs = <<>> THEN None ELSE fs[1]

select_frame(fs, phys_addr) == SelectFrom(fs, phys_addr, 1)

\* m[key] on a defaultdict(list): the value read, and the map after the read
DefaultGet(m, key) == IF key \in DOMAIN m THEN m[key] ELSE <<>>

DefaultTouch(m, key) == IF key \in DOMAIN m THEN m ELSE m @@ (key :> <<>>)

----------------------------------------------------------------------------
(* list.sort(key=get_fault_va): stable *)

RECURSIVE InsertByVA(_, _)
InsertByVA(s, f) ==
    IF s = <<>> THEN <<f>>
    ELSE IF get_fault_va(s[Len(s)]) <= get_fault_va(f) THEN Append(s, f)
    ELSE Append(InsertByVA(SubSeq(s, 1, Len(s) - 1), f), s[Len(s)])

RECURSIVE SortFrom(_, _, _)
SortFrom(acc, s, k) ==
    IF k > Len(s) THEN acc ELSE SortFrom(InsertByVA(acc, s[k]), s, k + 1)

\* the faults left in the order of the log
Unsorted(s) == s

SortByVA(s) == SortFrom(<<>>, s, 1)

----------------------------------------------------------------------------
(* Command line tokens *)

Tok(s) == [s |-> s, num |-> <<>>]

\* f"{fpath}:0x{addr:x}"
RawArg(name, addr) == [s |-> name, num |-> <<addr>>]

\* hex(cr3_value)
HexTok(v) == [s |-> "0x", num |-> <<v>>]

PathName(fname) == fname[Len(fname)]

NoCmdline == [isNone |-> TRUE, argv |-> <<>>]

\* lines 125-132 without the test of the size
PagesForAnySize(m, dir) ==
    LET name == PathName(m.fname) IN
    IF ~dir[name].exists THEN <<>>
    ELSE IF name # "(null)" THEN <<Tok("--raw"), RawArg(name, m.addr)>>
    ELSE <<>>

\* lines 125-132 for one mapping entry
PagesFor(m, dir) ==
    LET name == PathName(m.fname) IN
    IF ~dir[name].exists THEN <<>>
    ELSE IF name # "(null)" /\ dir[name].st_size = PageSize
        THEN <<Tok("--raw"), RawArg(name, m.addr)>>
    ELSE <<>>

RECURSIVE PagesFrom(_, _, _)
PagesFrom(ms, dir, k) ==
    IF k > Len(ms) THEN <<>>
    ELSE PagesFor(ms[k], dir) \o PagesFrom(ms, dir, k + 1)

Binary(blocks, cr3) ==
    IF blocks THEN <<Tok("drak-ipt-blocks"), Tok("--cr3"), HexTok(cr3)>>
    ELSE <<Tok("ptxed"), Tok("--block-decoder"), Tok("--block:show-blocks")>>

PtStream == IF entry = "generator" /\ ~use_blocks THEN "filtered_stream" ELSE "pt_stream"

----------------------------------------------------------------------------
(* get_ptxed_cmdline *)

Return(value) ==
    /\ ptxed_cmdline' = value
    /\ pc' = IF entry = "generator" THEN "popen" ELSE "cmd_done"

\* lines 103-105: CR3 not page aligned
CmdUnaligned ==
    /\ pc = "cmd_start"
    /\ ~is_page_aligned(cr3_value)
    /\ Return(NoCmdline)
    /\ UNCHANGED <<inputVars, matchVars, genVars>>

\* lines 107-121 and 62-69: load, partition, sort, build both maps
CmdLoad ==
    /\ pc = "cmd_start"
    /\ is_page_aligned(cr3_value)
    /\ LET codemon_out == load_drakvuf_output(codemon)
           IsFault(obj) == obj.EventType = "pagefault"
           IsFrame(obj) == obj.EventType = "execframe"
           Same == [cr3 \in {TargetCR3, OtherCR3} |-> cr3 = cr3_value]
           Differs == [cr3 \in {TargetCR3, OtherCR3} |-> cr3 # cr3_value]
           all_faults == SelectSeq(codemon_out, IsFault)
           executed_frames == SelectSeq(codemon_out, IsFrame)
           faults_in_process == select_cr3(Same, all_faults)
           frames_in_process == select_cr3(Same, executed_frames)
           frames_out_process == select_cr3(Differs, executed_frames)
       IN /\ page_faults' = SortByVA(faults_in_process)
          /\ frames' = frames_in_process
          /\ foreign_frames' = frames_out_process
          /\ frame_map' = build_frame_va_map(frames_in_process)
          /\ foreign_frame_map' = build_frame_va_map(frames_out_process)
    /\ loaded' = TRUE
    /\ unresolved' = 0
    /\ foreign_resolved' = 0
    /\ results' = <<>>
    /\ fi' = 0
    /\ pc' = "match"
    /\ UNCHANGED <<inputVars, ptxed_cmdline, genVars>>

\* the foreign pool asked first
ChooseForeignFirst(own, foreign) == IF foreign # None THEN foreign ELSE own

\* lines 78-81: the own frame if there is one, else the foreign one
ChooseFrame(own, foreign) == IF own # None THEN own ELSE foreign

\* lines 71-88: one iteration of the loop over page_faults
MatchFault ==
    /\ pc = "match"
    /\ fi < Len(page_faults)
    /\ LET fault == page_faults[fi + 1]
           va_page == page_align(get_fault_va(fault))
           pa_page == page_align(get_fault_pa(fault))
           own == select_frame(DefaultGet(frame_map, va_page), pa_page)
           foreign == select_frame(DefaultGet(foreign_frame_map, va_page), pa_page)
           frame == ChooseFrame(own, foreign)
       IN /\ frame_map' = DefaultTouch(frame_map, va_page)
          /\ foreign_frame_map' =
                IF own = None THEN DefaultTouch(foreign_frame_map, va_page)
                ELSE foreign_frame_map
          /\ unresolved' = IF own = None /\ frame = None THEN unresolved + 1 ELSE unresolved
          /\ foreign_resolved' =
                IF own = None /\ frame # None THEN foreign_resolved + 1
                ELSE foreign_resolved
          /\ results' =
                IF frame # None
                    THEN Append(results, [addr |-> va_page, fname |-> frame.DumpFile])
                ELSE results
    /\ fi' = fi + 1
    /\ UNCHANGED <<inputVars, pc, loaded, page_faults, frames, foreign_frames,
                   ptxed_cmdline, genVars>>

\* lines 90-96 and 123-141: match_frames returns, the command line is built
CmdBuild ==
    /\ pc = "match"
    /\ fi = Len(page_faults)
    /\ LET mappings == results
           pages == PagesFrom(mappings, dumps, 1)
       IN Return([isNone |-> FALSE,
                  argv |-> Binary(use_blocks, cr3_value) \o pages
                           \o <<Tok("--pt"), Tok(PtStream)>>])
    /\ UNCHANGED <<inputVars, matchVars, genVars>>

----------------------------------------------------------------------------

(* Decoder output *)

Chars(n, c) == [i \in 1..n |-> c]

\* "[block]\n"
LineBlock == <<"[", "b", "l", "o", "c", "k", "]", "\n">>

\* "0000000000401000  mov\n"
LineAddr == Chars(10, "0") \o <<"4", "0", "1", "0", "0", "0", " ", " ", "m", "o", "v", "\n">>

\* "[cbr 3]\n"
LineCbr == <<"[", "c", "b", "r", " ", "3", "]", "\n">>

\* "00402000\n": fewer than 16 digits
LineShort == <<"0", "0", "4", "0", "2", "0", "0", "0", "\n">>

\* "0040": the stream ended in the middle of a line
LineCut == <<"0", "0", "4", "0">>

PtxedLines == {LineBlock, LineAddr, LineCbr, LineShort, LineCut}

\* a line of drak-ipt-blocks, as json.loads sees it
JsonLine(ok, event, data) == [json |-> ok, event |-> event, data |-> data]

\* {"event": "block_executed", "data": "401000"}
JsonBlock == JsonLine(TRUE, "block_executed", <<"4", "0", "1", "0", "0", "0">>)

\* {"event": "other"}
JsonOther == JsonLine(TRUE, "other", <<>>)

\* {"event": "block_exe : the stream ended in the middle of a record
JsonCut == JsonLine(FALSE, "", <<>>)

BlocksLines == {JsonBlock, JsonOther, JsonCut}

IsCut(line, blocks) == IF blocks THEN ~line.json ELSE line[Len(line)] # "\n"

\* only the last line of a stream can be cut short
Streams(blocks) ==
    { s \in SeqsUpTo(IF blocks THEN BlocksLines ELSE PtxedLines, MaxLines) :
        \A k \in 1..(Len(s) - 1) : ~IsCut(s[k], blocks) }

HexDigits == <<"0", "1", "2", "3", "4", "5", "6", "7", "8", "9",
               "a", "b", "c", "d", "e", "f">>

IsHexDigit(c) == \E d \in 1..16 : HexDigits[d] = c

DigitVal(c) == (CHOOSE d \in 1..16 : HexDigits[d] = c) - 1

\* int(text, 16)
RECURSIVE HexVal(_)
HexVal(text) ==
    IF text = <<>> THEN 0
    ELSE 16 * HexVal(SubSeq(text, 1, Len(text) - 1)) + DigitVal(text[Len(text)])

\* line[:n]
Prefix(line, n) == SubSeq(line, 1, IF Len(line) < n THEN Len(line) ELSE n)

StartsWith(line, p) == Len(line) >= Len(p) /\ SubSeq(line, 1, Len(p)) = p

IsSpace(c) == c \in {" ", "\n", "\t", "\r"}

RECURSIVE Strip(_)
Strip(line) ==
    IF line = <<>> THEN line
    ELSE IF IsSpace(line[1]) THEN Strip(Tail(line))
    ELSE IF IsSpace(line[Len(line)]) THEN Strip(SubSeq(line, 1, Len(line) - 1))
    ELSE line

\* line 155-157: all(map(lambda c: c in "0123456789abcdef", line[:16].decode()))
AllHex(line) == \A k \in 1..Len(Prefix(line, HexWidth)) : IsHexDigit(line[k])

Annotations ==
    { <<"[", "c", "b", "r">>,
      <<"[", "p", "t", "w", "r", "i", "t", "e">>,
      <<"[", "e", "n", "a", "b", "l", "e", "d">>,
      <<"[", "d", "i", "s", "a", "b", "l", "e", "d">>,
      <<"[", "r", "e", "s", "u", "m", "e", "d">>,
      <<"[", "e", "x", "e", "c", " ", "m", "o", "d", "e">> }

\* lines 161-175: the flag after the rest of the loop body
AfterLine(line, flag) ==
    IF \E a \in Annotations : StartsWith(line, a) THEN flag
    ELSE IF Strip(line) = Strip(LineBlock) THEN TRUE
    ELSE flag

----------------------------------------------------------------------------
(* get_executed_blocks *)

\* the with block of line 184 is left: the temporary file is closed and deleted
Released(f) == IF f = "open" THEN "deleted" ELSE f

\* first next(): lines 179 and 184-186
GenStart ==
    /\ gen = "created"
    /\ gen' = "running"
    /\ pc' = "cmd_start"
    /\ IF use_blocks
        THEN UNCHANGED <<filtered_stream, filter_runs>>
        ELSE /\ filtered_stream' = "open"
             /\ filter_runs' = filter_runs + 1
    /\ UNCHANGED <<inputVars, matchVars, ptxed_cmdline, proc, rd, prev_block, yielded>>

\* lines 181 and 188: subprocess.Popen(current, stdout=PIPE); Popen(None) raises TypeError
Popen ==
    /\ pc = "popen"
    /\ IF ptxed_cmdline.isNone
        THEN /\ gen' = "raised"
             /\ filtered_stream' = Released(filtered_stream)
             /\ pc' = "exit"
             /\ UNCHANGED proc
        ELSE /\ proc' = "running"
             /\ pc' = "read"
             /\ UNCHANGED <<gen, filtered_stream>>
    /\ UNCHANGED <<inputVars, matchVars, ptxed_cmdline, filter_runs, rd, prev_block, yielded>>

\* the decoder runs on its own: it exits with its status once it has written its output
DecoderExit ==
    /\ proc = "running"
    /\ proc' = "exited"
    /\ UNCHANGED <<inputVars, matchVars, pc, ptxed_cmdline, gen, filtered_stream,
                   filter_runs, rd, prev_block, yielded>>

\* lines 145-148: one line of generate_ipt_blocks
ReadBlocks ==
    /\ pc = "read" /\ gen = "running" /\ use_blocks
    /\ rd < Len(decoder_out)
    /\ rd' = rd + 1
    /\ LET line == decoder_out[rd + 1] IN
       IF ~line.json
        THEN /\ gen' = "raised"
             /\ pc' = "exit"
             /\ filtered_stream' = Released(filtered_stream)
             /\ UNCHANGED yielded
        ELSE IF line.event = "block_executed"
        THEN /\ yielded' = Append(yielded, HexVal(line.data))
             /\ gen' = "suspended"
             /\ pc' = "resume"
             /\ UNCHANGED filtered_stream
        ELSE UNCHANGED <<gen, pc, filtered_stream, yielded>>
    /\ UNCHANGED <<inputVars, matchVars, ptxed_cmdline, filter_runs, proc, prev_block>>

\* lines 154-175: one line of generate_ptxed, up to the yield if it yields
ReadPtxed ==
    /\ pc = "read" /\ gen = "running" /\ ~use_blocks
    /\ rd < Len(decoder_out)
    /\ rd' = rd + 1
    /\ LET line == decoder_out[rd + 1] IN
       IF prev_block /\ AllHex(line)
        THEN /\ yielded' = Append(yielded, HexVal(Prefix(line, HexWidth)))
             /\ gen' = "suspended"
             /\ pc' = "resume"
             /\ UNCHANGED prev_block
        ELSE /\ prev_block' = AfterLine(line, prev_block)
             /\ UNCHANGED <<gen, pc, yielded>>
    /\ UNCHANGED <<inputVars, matchVars, ptxed_cmdline, filtered_stream, filter_runs, proc>>

\* next() after a yield: line 159 and the rest of the loop body
Resume ==
    /\ pc = "resume" /\ gen = "suspended"
    /\ gen' = "running"
    /\ pc' = "read"
    /\ prev_block' = IF use_blocks THEN prev_block ELSE AfterLine(decoder_out[rd], FALSE)
    /\ UNCHANGED <<inputVars, matchVars, ptxed_cmdline, filtered_stream, filter_runs,
                   proc, rd, yielded>>

\* process.stdout is at end of file: the decoder has exited, the generator returns
ReadEOF ==
    /\ pc = "read" /\ gen = "running"
    /\ rd = Len(decoder_out)
    /\ proc = "exited"
    /\ gen' = "finished"
    /\ pc' = "exit"
    /\ filtered_stream' = Released(filtered_stream)
    /\ UNCHANGED <<inputVars, matchVars, ptxed_cmdline, filter_runs, proc, rd,
                   prev_block, yielded>>

\* the caller abandons the sequence: close() raises GeneratorExit at the yield
Close ==
    /\ gen \in {"created", "suspended"}
    /\ gen' = "closed"
    /\ pc' = "exit"
    /\ filtered_stream' = Released(filtered_stream)
    /\ UNCHANGED <<inputVars, matchVars, ptxed_cmdline, filter_runs, proc, rd,
                   prev_block, yielded>>

----------------------------------------------------------------------------

InitLocals ==
    /\ loaded = FALSE
    /\ page_faults = <<>>
    /\ frames = <<>>
    /\ foreign_frames = <<>>
    /\ frame_map = <<>>
    /\ foreign_frame_map = <<>>
    /\ fi = 0
    /\ unresolved = 0
    /\ foreign_resolved = 0
    /\ results = <<>>
    /\ ptxed_cmdline = NoCmdline
    /\ filtered_stream = "none"
    /\ filter_runs = 0
    /\ proc = "none"
    /\ rd = 0
    /\ prev_block = FALSE
    /\ yielded = <<>>

\* get_ptxed_cmdline called directly (cmdline_main, line 223)
Init ==
    /\ cr3_value \in {TargetCR3, TargetCR3 + 1}
    /\ use_blocks \in BOOLEAN
    /\ codemon \in Logs
    /\ dumps \in DumpDirs
    /\ decoder_out = <<>>
    /\ decoder_rc = 0
    /\ entry = "direct"
    /\ pc = "cmd_start"
    /\ gen = "none"
    /\ InitLocals

Next ==
    \/ CmdUnaligned
    \/ CmdLoad
    \/ MatchFault
    \/ CmdBuild

Spec == Init /\ [][Next]_vars

\* one analysis whose log resolves a fault from each pool
ExecLog ==
    <<OtherEvent,
      Frame(TargetCR3, 28672, 36868, <<"dumps", "f1">>),
      Frame(OtherCR3, 32768, 36864, <<"tmp", "f1">>),
      Fault(TargetCR3, 32768, 36880),
      Fault(TargetCR3, 28688, 36864)>>

ExecDumps == [n \in DumpNames |-> IF n = "f1" THEN File(PageSize) ELSE Missing]

\* get_executed_blocks called: a generator that has not run yet
InitExec ==
    /\ cr3_value \in {TargetCR3, TargetCR3 + 1}
    /\ use_blocks \in BOOLEAN
    /\ codemon = ExecLog
    /\ dumps = ExecDumps
    /\ decoder_out \in Streams(use_blocks)
    /\ decoder_rc \in {0, 1}
    /\ entry = "generator"
    /\ pc = "idle"
    /\ gen = "created"
    /\ InitLocals

NextExec ==
    \/ GenStart
    \/ CmdUnaligned
    \/ CmdLoad
    \/ MatchFault
    \/ CmdBuild
    \/ Popen
    \/ DecoderExit
    \/ ReadBlocks
    \/ ReadPtxed
    \/ Resume
    \/ ReadEOF
    \/ Close

SpecExec == InitExec /\ [][NextExec]_vars

----------------------------------------------------------------------------
(* Properties of get_ptxed_cmdline and match_frames, stated over the inputs *)

VaPage(fault) == fault.VA - (fault.VA % 4096)

PaPage(fault) == fault.PA - (fault.PA % 4096)

\* the positions in pool of the frames on the fault's virtual and physical page
MatchesIn(pool, fault) ==
    { j \in 1..Len(pool) :
        /\ pool[j].PageVA - (pool[j].PageVA % 4096) = VaPage(fault)
        /\ pool[j].TrapPA - (pool[j].TrapPA % 4096) = PaPage(fault) }

Earliest(S) == CHOOSE j \in S : \A i \in S : j <= i

Resolvable(fault) ==
    MatchesIn(frames, fault) # {} \/ MatchesIn(foreign_frames, fault) # {}

\* a step of the loop of match_frames
FaultStep == pc = "match" /\ fi' = fi + 1

Returned == pc = "cmd_done" /\ ~ptxed_cmdline.isNone

RawPositions == { k \in 1..Len(ptxed_cmdline.argv) : ptxed_cmdline.argv[k] = Tok("--raw") }

\* C1: every "--raw" of the command line is followed by a <file>:<addr> argument
\* that comes from a mapping entry whose dump file exists in the dump directory
\* with a size of exactly 4096 bytes; no <file>:<addr> argument stands without
\* its "--raw"; and the entries after a skipped one are still handled: every
\* entry with an existing, 4096-byte file (other than "(null)") has its argument.
C1_RawOnlyForExistingFullPage ==
    Returned =>
        LET argv == ptxed_cmdline.argv IN
        /\ \A k \in RawPositions :
            /\ k < Len(argv)
            /\ \E m \in 1..Len(results) :
                /\ argv[k + 1] = RawArg(results[m].fname[Len(results[m].fname)], results[m].addr)
                /\ dumps[argv[k + 1].s].exists
                /\ dumps[argv[k + 1].s].st_size = 4096
        /\ \A k \in 1..Len(argv) :
            (argv[k].num # <<>> /\ argv[k].s # "0x") => (k > 1 /\ argv[k - 1] = Tok("--raw"))
        /\ \A m \in 1..Len(results) :
            LET name == results[m].fname[Len(results[m].fname)] IN
            (dumps[name] = File(4096) /\ name # "(null)")
                => \E k \in RawPositions : argv[k + 1] = RawArg(name, results[m].addr)

\* C1 witness: the first mapping entry is skipped (file missing or of another
\* size), the second one is emitted
C1_Witness ==
    /\ Returned
    /\ Len(results) = 2
    /\ dumps[results[1].fname[Len(results[1].fname)]] # File(4096)
    /\ Cardinality(RawPositions) = 1
    /\ \E k \in RawPositions : ptxed_cmdline.argv[k + 1].num = <<results[2].addr>>

\* C2: a fault that has a frame of the own pool on its virtual and physical
\* page is resolved to the dump file of such an own frame, whatever the foreign
\* pool holds; the foreign pool is left alone and the foreign-resolved counter
\* keeps its value.
C2_OwnPoolPreferred ==
    [][ FaultStep =>
          LET fault == page_faults[fi + 1] IN
          MatchesIn(frames, fault) # {} =>
            /\ \E j \in MatchesIn(frames, fault) :
                 results' = Append(results, [addr |-> VaPage(fault), fname |-> frames[j].DumpFile])
            /\ foreign_resolved' = foreign_resolved
            /\ unresolved' = unresolved
            /\ foreign_frame_map' = foreign_frame_map ]_vars

\* C2 witness: a fault was resolved from the own pool while the foreign pool
\* holds a frame on the same virtual and physical page with another dump file
C2_Witness ==
    /\ pc = "match" /\ fi >= 1
    /\ MatchesIn(frames, page_faults[fi]) # {}
    /\ \E g \in MatchesIn(foreign_frames, page_faults[fi]) :
         \A j \in MatchesIn(frames, page_faults[fi]) :
            foreign_frames[g].DumpFile # frames[j].DumpFile
    /\ results # <<>>
    /\ foreign_resolved = 0

\* C3: a fault with no frame on its pages in either pool raises nothing, adds
\* exactly one to the unresolved counter, leaves the foreign-resolved counter and
\* the result alone, and the loop goes on; when no fault at all is resolvable the
\* function returns an empty mapping.
C3_UnresolvedCountedNotFatal ==
    [][ /\ FaultStep =>
            LET fault == page_faults[fi + 1] IN
            ~Resolvable(fault) =>
                /\ unresolved' = unresolved + 1
                /\ foreign_resolved' = foreign_resolved
                /\ results' = results
                /\ pc' = "match"
        /\ (pc = "match" /\ pc' # "match") =>
            /\ ~ptxed_cmdline'.isNone
            /\ (\A k \in 1..Len(page_faults) : ~Resolvable(page_faults[k]))
                  => (results = <<>> /\ unresolved = Len(page_faults)) ]_vars

\* C3 witness: the first fault was unresolved although its virtual page has a
\* frame, and the fault after it was resolved
C3_Witness ==
    /\ Returned
    /\ Len(page_faults) = 2
    /\ ~Resolvable(page_faults[1])
    /\ \E j \in 1..Len(frames) : frames[j].PageVA = VaPage(page_faults[1])
    /\ unresolved = 1
    /\ Len(results) = 1
    /\ results[1].addr = VaPage(page_faults[2])

\* C8: the mapping has exactly one entry per resolvable fault handled so far,
\* in the order of the faults, each with the fault's page and the dump file of a
\* frame on its pages; the page addresses of the mapping and the load addresses
\* of the "--raw" arguments are in non-decreasing order.
C8_MappingOrdered ==
    pc \in {"match", "cmd_done", "popen"} /\ loaded =>
        LET done == SelectSeq(SubSeq(page_faults, 1, fi), Resolvable) IN
        /\ Len(results) = Len(done)
        /\ \A k \in 1..Len(results) :
            /\ results[k].addr = VaPage(done[k])
            /\ \/ \E j \in MatchesIn(frames, done[k]) : results[k].fname = frames[j].DumpFile
               \/ \E j \in MatchesIn(foreign_frames, done[k]) :
                    results[k].fname = foreign_frames[j].DumpFile
        /\ \A k \in 1..(Len(results) - 1) : results[k].addr <= results[k + 1].addr
        /\ \A k \in RawPositions : \A l \in RawPositions :
             k < l => ptxed_cmdline.argv[k + 1].num[1] <= ptxed_cmdline.argv[l + 1].num[1]

\* C8 witness: the log has a fault of a higher page before a fault of a lower
\* page, both are resolved and both have their "--raw" argument
C8_Witness ==
    /\ Returned
    /\ Len(results) = 2
    /\ results[1].addr < results[2].addr
    /\ Cardinality(RawPositions) = 2
    /\ \E a \in 1..Len(codemon) : \E b \in 1..Len(codemon) :
        /\ a < b
        /\ codemon[a].EventType = "pagefault" /\ codemon[b].EventType = "pagefault"
        /\ codemon[a].CR3 = cr3_value /\ codemon[b].CR3 = cr3_value
        /\ codemon[a].VA > codemon[b].VA

OnPage(pool, page) ==
    LET Here(frame) == frame.PageVA - (frame.PageVA % 4096) = page IN SelectSeq(pool, Here)

\* C9: every page of an index lists its frames in the order of the input list,
\* and a fault is resolved to the dump file of the earliest frame of the input
\* that is on its virtual and physical page (own pool first).
C9_FirstInsertedWins ==
    [][ /\ pc' = "match" =>
            /\ \A page \in DOMAIN frame_map' : frame_map'[page] = OnPage(frames', page)
            /\ \A page \in DOMAIN foreign_frame_map' :
                 foreign_frame_map'[page] = OnPage(foreign_frames', page)
        /\ FaultStep =>
            LET fault == page_faults[fi + 1]
                own == MatchesIn(frames, fault)
                other == MatchesIn(foreign_frames, fault)
            IN /\ own # {} =>
                    results' = Append(results, [addr |-> VaPage(fault),
                                                fname |-> frames[Earliest(own)].DumpFile])
               /\ (own = {} /\ other # {}) =>
                    results' = Append(results, [addr |-> VaPage(fault),
                                                fname |-> foreign_frames[Earliest(other)].DumpFile]) ]_vars

\* C9 witness: two own frames with different dump files are on the pages of a
\* resolved fault, and the entry carries the dump file of the first
C9_Witness ==
    /\ pc = "match" /\ fi >= 1
    /\ Cardinality(MatchesIn(frames, page_faults[fi])) = 2
    /\ frames[1].DumpFile # frames[2].DumpFile
    /\ results # <<>>
    /\ results[Len(results)].fname = frames[1].DumpFile

\* C10: during fault resolution the two frame indexes keep their keys and
\* their frame lists, also when the page looked up is not a key.
C10_IndexesReadOnly ==
    [][ pc = "match" =>
          /\ DOMAIN frame_map' = DOMAIN frame_map
          /\ DOMAIN foreign_frame_map' = DOMAIN foreign_frame_map
          /\ \A page \in DOMAIN frame_map : frame_map'[page] = frame_map[page]
          /\ \A page \in DOMAIN foreign_frame_map :
               foreign_frame_map'[page] = foreign_frame_map[page] ]_vars

----------------------------------------------------------------------------
(* Properties of get_executed_blocks and of the two normalisers *)

IsMarkerLine(line) == line = <<"[", "b", "l", "o", "c", "k", "]", "\n">>

Begins16Hex(line) ==
    /\ Len(line) >= 16
    /\ \A k \in 1..16 :
        line[k] \in {"0", "1", "2", "3", "4", "5", "6", "7", "8", "9",
                     "a", "b", "c", "d", "e", "f"}

\* a line of the ptxed output is consumed
PtxedLineStep == ~use_blocks /\ rd' = rd + 1

\* C4: the flag set by a "[block]" line is reset after the next line, whether or
\* not that line is an address: a value is emitted only for a line that comes
\* right after a "[block]" line and begins with 16 hexadecimal digits, and at the
\* top of the loop the flag is set only when the line just consumed is a marker.
C4_FlagResetAfterNextLine ==
    [][ PtxedLineStep =>
          /\ yielded' # yielded =>
                /\ rd >= 1
                /\ IsMarkerLine(decoder_out[rd])
                /\ Begins16Hex(decoder_out[rd + 1])
          /\ (gen' = "running" /\ prev_block') => IsMarkerLine(decoder_out[rd + 1])
          /\ gen' # "raised" ]_vars

GenOver == gen \in {"finished", "raised", "closed"}

\* C5: once the instruction-pointer sequence is over (end of stream, the caller
\* closing it early, or an error), the decoder process is not running and the
\* temporary filtered stream file is gone.
C5_CleanupOnEveryExit ==
    GenOver => (proc # "running" /\ filtered_stream # "open")

\* C6: with a CR3 that is not page aligned nothing is done: the log is not
\* loaded, no fault is matched, no command line is produced, and neither the
\* stream filter nor the decoder is launched.
C6_UnalignedDoesNothing ==
    cr3_value % 4096 # 0 =>
        /\ ~loaded
        /\ fi = 0 /\ results = <<>>
        /\ ptxed_cmdline.isNone
        /\ filter_runs = 0
        /\ proc = "none"

StreamCut ==
    /\ decoder_out # <<>>
    /\ IF use_blocks THEN ~decoder_out[Len(decoder_out)].json
       ELSE decoder_out[Len(decoder_out)][Len(decoder_out[Len(decoder_out)])] # "\n"

\* C7: when the decoder exits with a failure status, or its output ends in the
\* middle of a record, the sequence does not end as a normal completion: the
\* failure is raised to the caller.
C7_DecoderFailurePropagated ==
    (proc = "exited" /\ (decoder_rc # 0 \/ StreamCut)) => gen # "finished"

====
